---- MODULE Spec2Model ----
(***************************************************************************)
(* TrendingDynamo (app/mixins/trending/dynamo.py): a store of per-item     *)
(* trending scores kept in one DynamoDB table.  Every method issues one    *)
(* conditional request to the table, so a method call is one atomic step   *)
(* of the table; callers interleave between calls and hold on to items     *)
(* they read earlier.                                                      *)
(*                                                                         *)
(* Decimals are pairs coef * 10^exp as in Python's decimal module.         *)
(* Timestamps are pairs (day, time of day); their ISO-8601 string is the   *)
(* sequence <<day, time>> and the string of a date is <<day>>, so that     *)
(* begins_with is the prefix test on sequences.                            *)
(***************************************************************************)
EXTENDS Integers, Sequences, FiniteSets, TLC

\* ------------------------------------------------------------------------
\* Bounds of the model
\* ------------------------------------------------------------------------
NumProcs == 2
\* inputs may carry one more fractional digit than PERCISION keeps
FineDigits == 10
\* coefficients of the inputs given with PrecisionDigits fractional digits
MaxCoef == 2
\* instants a caller may pass as now, two to a day
MaxTime == 3
\* successful writes to one key in Spec and SpecRace
MaxVer == 3
\* successful writes to one key in SpecKeys
MaxKeyVer == 2
\* successful writes to one key in any specification
MaxWrites == 4
\* successful increments since the last add or deflate of a record
MaxIncs == 2

\* ------------------------------------------------------------------------
\* Program constants
\* ------------------------------------------------------------------------
\* PERCISION = Decimal(10) ** -9
PrecisionDigits == 9
SchemaVersion == 0

Procs == 1..NumProcs
\* no item under a key; no expected_score; nothing read yet; nothing written yet
Absent == [absent |-> TRUE]
None == [none |-> TRUE]
NoView == [pk |-> "", item |-> Absent, ver |-> -1]
NoHist == [base |-> -1, incs |-> <<>>, by |-> "none", at |-> -1, type |-> ""]

\* ------------------------------------------------------------------------
\* decimal.Decimal
\* ------------------------------------------------------------------------
Dec(c, e) == [coef |-> c, exp |-> e]

RECURSIVE Pow10(_)
Pow10(n) == IF n <= 0 THEN 1 ELSE 10 * Pow10(n - 1)

Abs(n) == IF n < 0 THEN -n ELSE n
Sign(n) == IF n < 0 THEN -1 ELSE 1
Min(a, b) == IF a <= b THEN a ELSE b

\* the coefficient of d written with exponent e (e <= d.exp)
Rescale(d, e) == IF d.coef = 0 THEN 0 ELSE d.coef * Pow10(d.exp - e)

\* the value of d in units of 10^-FineDigits
Ticks(d) == Rescale(d, -FineDigits)

\* Python's ==, <, >= on Decimals and DynamoDB's = on numbers compare values
NumEq(a, b) == Rescale(a, Min(a.exp, b.exp)) = Rescale(b, Min(a.exp, b.exp))
NumLt(a, b) == Rescale(a, Min(a.exp, b.exp)) < Rescale(b, Min(a.exp, b.exp))
NumGe(a, b) == ~NumLt(a, b)
Zero == Dec(0, 0)

\* n / m rounded to the nearest integer, ties to the even one (ROUND_HALF_EVEN)
RoundHalfEven(n, m) ==
    LET q == Abs(n) \div m
        r == Abs(n) % m
        up == (2 * r > m) \/ (2 * r = m /\ q % 2 = 1)
    IN Sign(n) * (IF up THEN q + 1 ELSE q)

\* d.quantize(PERCISION): the exponent becomes -PrecisionDigits
Quantize(d) ==
    IF d.exp >= -PrecisionDigits
    THEN Dec(Rescale(d, -PrecisionDigits), -PrecisionDigits)
    ELSE Dec(RoundHalfEven(d.coef, Pow10(-PrecisionDigits - d.exp)), -PrecisionDigits)

\* d.normalize(): trailing zeros of the coefficient are stripped, zero is 0
RECURSIVE Normalize(_)
Normalize(d) ==
    IF d.coef = 0 THEN Zero
    ELSE IF d.coef % 10 = 0 THEN Normalize(Dec(d.coef \div 10, d.exp + 1))
    ELSE d

\* the number the table holds after ADD
DecAdd(a, b) ==
    LET e == Min(a.exp, b.exp)
    IN Normalize(Dec(Rescale(a, e) + Rescale(b, e), e))

\* ------------------------------------------------------------------------
\* pendulum datetimes and dates
\* ------------------------------------------------------------------------
DateTimes == {[day |-> (t + 1) \div 2, tod |-> 2 - (t % 2)] : t \in 1..MaxTime}
Days == {dt.day : dt \in DateTimes}
to_iso8601_string(dt) == <<dt.day, dt.tod>>
DateStr(date) == <<date>>
begins_with(s, prefix) ==
    /\ Len(prefix) <= Len(s)
    /\ SubSeq(s, 1, Len(prefix)) = prefix

\* ------------------------------------------------------------------------
\* Keys
\* ------------------------------------------------------------------------
ItemTypes == {"a", "a/b"}
ItemIds == {"c", "b/c"}
pk(item_type, item_id) == item_type \o "/" \o item_id
gsiK3PartitionKey(item_type) == item_type \o "/trending"
Keys == {pk(t, i) : t \in ItemTypes, i \in ItemIds}


\* ------------------------------------------------------------------------
\* State
\* ------------------------------------------------------------------------
VARIABLES
    store,   \* the table: key -> item or Absent
    ver,     \* key -> number of successful writes to the key so far
    hist,    \* key -> the last add or deflate of the item (the score it wrote, in
             \* ticks, and the version it made), the increments made since and
             \* the item type of the add that made the item
    view,    \* caller -> the item it last read with get, and when
    done,    \* caller -> its last completed call
    scanned  \* caller -> the keys its last generate_keys yielded, in order

vars == <<store, ver, hist, view, done, scanned>>

NoScan == [item_type |-> "", keys |-> <<>>]

NoCall == [op |-> "none", pk |-> "", outcome |-> "none", seen |-> -1, at |-> -1, pre |-> TRUE]

Init ==
    /\ store = [k \in Keys |-> Absent]
    /\ ver = [k \in Keys |-> 0]
    /\ hist = [k \in Keys |-> NoHist]
    /\ view = [p \in Procs |-> NoView]
    /\ done = [p \in Procs |-> NoCall]
    /\ scanned = [p \in Procs |-> NoScan]

\* ------------------------------------------------------------------------
\* The table client (app/clients/dynamo.py)
\* ------------------------------------------------------------------------
\* get_item: the item under the key, or nothing
get_item(st, k) == st[k]

\* add_item: put conditioned on the key not existing
add_item_fails(st, k) == st[k] # Absent

\* update_item: the condition of an update is evaluated on the stored item and
\* is false when there is none
update_item_fails(st, k, condition) == IF st[k] = Absent THEN TRUE ELSE ~condition

\* delete_item: a conditioned delete fails when the condition is false or the
\* item is missing; an unconditioned delete never fails
delete_item_fails(st, k, conditioned, condition) ==
    IF ~conditioned THEN FALSE
    ELSE IF st[k] = Absent THEN TRUE
    ELSE ~condition

\* generate_all_query on an index: every item whose index partition key is the
\* one asked for, once, ordered by the index sort key, ascending when
\* ScanIndexForward; items of equal sort key come in any order
Indexed(st, query) ==
    {k \in Keys : IF st[k] = Absent THEN FALSE
                  ELSE st[k].gsiK3PartitionKey = query.gsik3pk}

InOrder(st, query, a, b) ==
    IF query.ScanIndexForward
    THEN ~NumLt(st[b].gsiK3SortKey, st[a].gsiK3SortKey)
    ELSE ~NumLt(st[a].gsiK3SortKey, st[b].gsiK3SortKey)

generate_all_query(st, query) ==
    LET n == Cardinality(Indexed(st, query)) IN
    {seq \in [1..n -> Indexed(st, query)] :
        /\ \A i, j \in 1..n : i # j => seq[i] # seq[j]
        /\ \A i, j \in 1..n : i < j => InOrder(st, query, seq[i], seq[j])}

\* ------------------------------------------------------------------------
\* TrendingDynamo: what each method asserts, asks and writes
\* ------------------------------------------------------------------------
\* add: assert initial_score >= 0
add_asserts(initial_score) == NumGe(initial_score, Zero)

\* add that stores initial_score as given
add_Item_unquantized(item_type, initial_score, now) ==
    [ schemaVersion |-> SchemaVersion,
      gsiK3PartitionKey |-> gsiK3PartitionKey(item_type),
      gsiK3SortKey |-> Normalize(initial_score),
      lastDeflatedAt |-> to_iso8601_string(now),
      createdAt |-> to_iso8601_string(now) ]

\* add that files every item under one index partition, whatever its type
add_Item_untyped(item_type, initial_score, now) ==
    [ schemaVersion |-> SchemaVersion,
      gsiK3PartitionKey |-> "trending",
      gsiK3SortKey |-> Normalize(Quantize(initial_score)),
      lastDeflatedAt |-> to_iso8601_string(now),
      createdAt |-> to_iso8601_string(now) ]

\* add: the Item of query_kwargs
add_Item(item_type, initial_score, now) ==
    [ schemaVersion |-> SchemaVersion,
      gsiK3PartitionKey |-> gsiK3PartitionKey(item_type),
      gsiK3SortKey |-> Normalize(Quantize(initial_score)),
      lastDeflatedAt |-> to_iso8601_string(now),
      createdAt |-> to_iso8601_string(now) ]

\* add_score: assert score_to_add >= 0
add_score_asserts(score_to_add) == NumGe(score_to_add, Zero)

\* add_score conditioned on the date of lastDeflatedAt, as deflate_score is
add_score_condition_by_date(item, expected_last_deflated_at) ==
    begins_with(item.lastDeflatedAt, DateStr(expected_last_deflated_at.day))

\* add_score: ConditionExpression 'lastDeflatedAt = :elda'
add_score_condition(item, expected_last_deflated_at) ==
    item.lastDeflatedAt = to_iso8601_string(expected_last_deflated_at)

\* add_score that adds score_to_add as given
add_score_update_unquantized(item, score_to_add) ==
    [item EXCEPT !.gsiK3SortKey = DecAdd(@, score_to_add)]

\* add_score that also starts a new deflation generation at the creation time
add_score_update_restarting(item, score_to_add) ==
    [item EXCEPT !.gsiK3SortKey = DecAdd(@, Normalize(Quantize(score_to_add))),
                 !.lastDeflatedAt = item.createdAt]

\* add_score: UpdateExpression 'ADD gsiK3SortKey :sta'
add_score_update(item, score_to_add) ==
    [item EXCEPT !.gsiK3SortKey = DecAdd(@, Normalize(Quantize(score_to_add)))]

\* deflate_score asserting expected_score >= new_score
deflate_score_asserts_ge(expected_score, new_score) ==
    /\ NumGe(new_score, Zero)
    /\ NumGe(expected_score, new_score)

\* deflate_score asserting only expected_score > new_score
deflate_score_asserts_lower(expected_score, new_score) == NumLt(new_score, expected_score)

\* deflate_score: assert new_score >= 0; assert expected_score > new_score
deflate_score_asserts(expected_score, new_score) ==
    /\ NumGe(new_score, Zero)
    /\ NumLt(new_score, expected_score)

\* deflate_score conditioned on the score alone, and on the date alone
deflate_score_condition_score_only(item, expected_score, expected_last_deflation_date) ==
    NumEq(item.gsiK3SortKey, expected_score)
deflate_score_condition_date_only(item, expected_score, expected_last_deflation_date) ==
    begins_with(item.lastDeflatedAt, DateStr(expected_last_deflation_date))

\* deflate_score: 'gsiK3SortKey = :es AND begins_with(lastDeflatedAt, :eldd)'
deflate_score_condition(item, expected_score, expected_last_deflation_date) ==
    /\ NumEq(item.gsiK3SortKey, expected_score)
    /\ begins_with(item.lastDeflatedAt, DateStr(expected_last_deflation_date))

\* deflate_score: 'SET gsiK3SortKey = :ns, lastDeflatedAt = :lda'
deflate_score_update(item, new_score, now) ==
    [item EXCEPT !.gsiK3SortKey = Normalize(Quantize(new_score)),
                 !.lastDeflatedAt = to_iso8601_string(now)]

\* delete conditioned on 'gsiK3SortKey >= :es'
delete_condition_ge(item, expected_score) == NumGe(item.gsiK3SortKey, expected_score)

\* delete: ConditionExpression 'gsiK3SortKey = :es' when expected_score is given
delete_condition(item, expected_score) == NumEq(item.gsiK3SortKey, expected_score)

\* delete: a ConditionExpression is passed if expected_score is not None
delete_conditioned(expected_score) == expected_score # None

\* generate_keys asking for the index backwards
generate_keys_query_backward(item_type) ==
    [IndexName |-> "GSI-K3", gsik3pk |-> gsiK3PartitionKey(item_type),
     ScanIndexForward |-> FALSE]

\* generate_keys: query_kwargs; ScanIndexForward is not passed and defaults to true
generate_keys_query(item_type) ==
    [IndexName |-> "GSI-K3", gsik3pk |-> gsiK3PartitionKey(item_type),
     ScanIndexForward |-> TRUE]

\* methods that swallow the client's exception, and a delete that always raises
add_raises_swallowed(failed) == "ok"
add_score_raises_swallowed(failed) == "ok"
delete_raises_always(failed) == "TrendingDNEOrAttributeMismatch"

\* deflate_score that swallows the client's exception
deflate_score_raises_swallowed(failed) == "ok"

\* what a method raises when the client reports ConditionalCheckFailedException
add_raises(failed) == IF failed THEN "TrendingAlreadyExists" ELSE "ok"
add_score_raises(failed) == IF failed THEN "TrendingDNEOrAttributeMismatch" ELSE "ok"
deflate_score_raises(failed) == IF failed THEN "TrendingDNEOrAttributeMismatch" ELSE "ok"
delete_raises(failed) == IF failed THEN "TrendingDNEOrAttributeMismatch" ELSE "ok"

\* ------------------------------------------------------------------------
\* Callers
\* ------------------------------------------------------------------------
\* caller p holds an item of key k that it read
HasView(p, k) == view[p].pk = k /\ view[p].item # Absent

\* the version of the item whose lastDeflatedAt the caller expects, or -1
SeenAt(p, k, expected_last_deflated_at) ==
    IF HasView(p, k)
       /\ view[p].item.lastDeflatedAt = to_iso8601_string(expected_last_deflated_at)
    THEN view[p].ver ELSE -1

\* the version of the item whose score and date of deflation the caller expects
SeenScoreDate(p, k, expected_score, expected_last_deflation_date) ==
    IF HasView(p, k)
       /\ view[p].item.gsiK3SortKey = expected_score
       /\ begins_with(view[p].item.lastDeflatedAt, DateStr(expected_last_deflation_date))
    THEN view[p].ver ELSE -1

\* the version of the item whose score the caller expects
SeenScore(p, k, expected_score) ==
    IF HasView(p, k) /\ view[p].item.gsiK3SortKey = expected_score
    THEN view[p].ver ELSE -1

\* a completed call: what it was, how it ended, the version of the item its
\* expectations were read from, the version it met, and whether its arguments
\* met the precondition the interface states for it
Call(o, k, out, s, a, ok) ==
    [op |-> o, pk |-> k, outcome |-> out, seen |-> s, at |-> a, pre |-> ok]
Rejected(o, k, ok) == Call(o, k, "AssertionError", -1, -1, ok)

\* the stated preconditions: initialScore >= 0; delta >= 0; newScore >= 0 and
\* newScore < expectedScore
NonNegative(score) == NumGe(score, Zero)
StrictlyLower(expected_score, new_score) ==
    ~(NumGe(new_score, expected_score) \/ NumLt(new_score, Zero))

\* get(item_id)
Get(p, item_type, item_id) ==
    LET k == pk(item_type, item_id) IN
    /\ view' = [view EXCEPT ![p] = [pk |-> k, item |-> get_item(store, k), ver |-> ver[k]]]
    /\ UNCHANGED <<store, ver, hist, done, scanned>>

\* add(item_id, initial_score, now)
Add(p, item_type, item_id, initial_score, now) ==
    LET k == pk(item_type, item_id)
        failed == add_item_fails(store, k)
    IN
    /\ ver[k] < MaxWrites
    /\ IF ~add_asserts(initial_score)
       THEN /\ done' = [done EXCEPT ![p] = Rejected("add", k, NonNegative(initial_score))]
            /\ UNCHANGED <<store, ver, hist>>
       ELSE /\ done' = [done EXCEPT ![p] = Call("add", k, add_raises(failed), -1, ver[k],
                                                 NonNegative(initial_score))]
            /\ IF failed
               THEN UNCHANGED <<store, ver, hist>>
               ELSE /\ store' = [store EXCEPT ![k] = add_Item(item_type, initial_score, now)]
                    /\ ver' = [ver EXCEPT ![k] = @ + 1]
                    /\ hist' = [hist EXCEPT ![k] =
                                  [base |-> Ticks(Quantize(initial_score)), incs |-> <<>>,
                                   by |-> "add", at |-> ver[k] + 1, type |-> item_type]]
    /\ UNCHANGED <<view, scanned>>

\* add_score(item_id, score_to_add, expected_last_deflated_at)
AddScore(p, item_type, item_id, score_to_add, expected_last_deflated_at) ==
    LET k == pk(item_type, item_id)
        failed == update_item_fails(store, k,
                      add_score_condition(store[k], expected_last_deflated_at))
    IN
    /\ ver[k] < MaxWrites
    /\ IF ~add_score_asserts(score_to_add)
       THEN /\ done' = [done EXCEPT ![p] = Rejected("add_score", k, NonNegative(score_to_add))]
            /\ UNCHANGED <<store, ver, hist>>
       ELSE /\ IF failed THEN TRUE ELSE Len(hist[k].incs) < MaxIncs
            /\ done' = [done EXCEPT ![p] =
                          Call("add_score", k, add_score_raises(failed),
                               SeenAt(p, k, expected_last_deflated_at), ver[k],
                               NonNegative(score_to_add))]
            /\ IF failed
               THEN UNCHANGED <<store, ver, hist>>
               ELSE /\ store' = [store EXCEPT ![k] = add_score_update(@, score_to_add)]
                    /\ ver' = [ver EXCEPT ![k] = @ + 1]
                    /\ hist' = [hist EXCEPT ![k].incs =
                                  Append(@, Ticks(Quantize(score_to_add)))]
    /\ UNCHANGED <<view, scanned>>

\* deflate_score(item_id, expected_score, new_score, expected_last_deflation_date, now)
DeflateScore(p, item_type, item_id, expected_score, new_score, expected_last_deflation_date, now) ==
    LET k == pk(item_type, item_id)
        failed == update_item_fails(store, k,
                      deflate_score_condition(store[k], expected_score,
                                              expected_last_deflation_date))
    IN
    /\ ver[k] < MaxWrites
    /\ IF ~deflate_score_asserts(expected_score, new_score)
       THEN /\ done' = [done EXCEPT ![p] =
                          Rejected("deflate_score", k, StrictlyLower(expected_score, new_score))]
            /\ UNCHANGED <<store, ver, hist>>
       ELSE /\ done' = [done EXCEPT ![p] =
                          Call("deflate_score", k, deflate_score_raises(failed),
                               SeenScoreDate(p, k, expected_score,
                                             expected_last_deflation_date), ver[k],
                               StrictlyLower(expected_score, new_score))]
            /\ IF failed
               THEN UNCHANGED <<store, ver, hist>>
               ELSE /\ store' = [store EXCEPT ![k] = deflate_score_update(@, new_score, now)]
                    /\ ver' = [ver EXCEPT ![k] = @ + 1]
                    /\ hist' = [hist EXCEPT ![k] =
                                  [base |-> Ticks(Quantize(new_score)), incs |-> <<>>,
                                   by |-> "deflate", at |-> ver[k] + 1,
                                   type |-> hist[k].type]]
    /\ UNCHANGED <<view, scanned>>

\* delete(item_id, expected_score=None)
Delete(p, item_type, item_id, expected_score) ==
    LET k == pk(item_type, item_id)
        conditioned == delete_conditioned(expected_score)
        failed == delete_item_fails(store, k, conditioned,
                      delete_condition(store[k], expected_score))
    IN
    /\ ver[k] < MaxWrites
    /\ done' = [done EXCEPT ![p] =
                  Call("delete", k, delete_raises(failed),
                       IF conditioned THEN SeenScore(p, k, expected_score) ELSE -1, ver[k],
                       TRUE)]
    /\ IF failed
       THEN UNCHANGED <<store, ver, hist>>
       ELSE IF store[k] = Absent
       THEN UNCHANGED <<store, ver, hist>>
       ELSE /\ store' = [store EXCEPT ![k] = Absent]
            /\ ver' = [ver EXCEPT ![k] = @ + 1]
            /\ hist' = [hist EXCEPT ![k] = NoHist]
    /\ UNCHANGED <<view, scanned>>

\* generate_keys(), run to its end with no write in between
GenerateKeys(p, item_type) ==
    /\ \E keys \in generate_all_query(store, generate_keys_query(item_type)) :
          scanned' = [scanned EXCEPT ![p] = [item_type |-> item_type, keys |-> keys]]
    /\ UNCHANGED <<store, ver, hist, view, done>>

\* ------------------------------------------------------------------------
\* Inputs
\* ------------------------------------------------------------------------
\* -1, 0, 1, .. in units of PERCISION, and values that are not multiples of it:
\* 0.6 and 1.5 units
FineCoefs == {6, 15}
Decimals == {Dec(c, -PrecisionDigits) : c \in -1..MaxCoef}
            \cup {Dec(c, -FineDigits) : c \in FineCoefs}
\* the inputs of racing callers: one unit and 0.6 units
RaceDecimals == {Dec(1, -PrecisionDigits), Dec(6, -FineDigits)}

\* the scores a caller expects: the one of the item it read, or 0, 1, .. units
ScoresOf(p) == IF view[p].item # Absent THEN {view[p].item.gsiK3SortKey} ELSE {}
Expected(p, D) == ScoresOf(p) \cup (D \cap {Dec(c, -PrecisionDigits) : c \in 0..MaxCoef})

TheType == "a"
TheId == "c"

\* the calls of caller p on one identity that write to the table
Writes(p, item_type, item_id, D, DT) ==
    \/ \E s \in D, now \in DT : Add(p, item_type, item_id, s, now)
    \/ \E d \in D, elda \in DT : AddScore(p, item_type, item_id, d, elda)
    \/ \E es \in Expected(p, D), ns \in D, eldd \in Days, now \in DT :
          DeflateScore(p, item_type, item_id, es, ns, eldd, now)
    \/ \E es \in Expected(p, D) \cup {None} : Delete(p, item_type, item_id, es)

\* callers P calling on the identities of Ids, pairs of an item type and an
\* item id, with decimals of D and datetimes of DT, while a key has seen fewer
\* than cap writes
CallsOn(P, Ids, D, DT, cap) ==
    \E p \in P, id \in Ids :
        \/ Get(p, id[1], id[2])
        \/ /\ ver[pk(id[1], id[2])] < cap
           /\ Writes(p, id[1], id[2], D, DT)

\* callers P calling on one identity
Calls(P, D, DT) == CallsOn(P, {<<TheType, TheId>>}, D, DT, MaxVer)

\* one caller, every input
Next == Calls({1}, Decimals, DateTimes)
Spec == Init /\ [][Next]_vars

\* one caller writing to several identities, two of one type and two of one
\* key, and scanning each type; whole units and one instant only
Identities == {<<"a", "c">>, <<"a", "b/c">>, <<"a/b", "c">>}
KeyDecimals == {Dec(1, -PrecisionDigits), Dec(2, -PrecisionDigits)}
KeyTimes == {dt \in DateTimes : dt.day = 1 /\ dt.tod = 1}
NextKeys ==
    \/ \E id \in Identities :
          /\ ver[pk(id[1], id[2])] < MaxKeyVer
          /\ Writes(1, id[1], id[2], KeyDecimals, KeyTimes)
    \/ \E item_type \in ItemTypes : GenerateKeys(1, item_type)
SpecKeys == Init /\ [][NextKeys]_vars

\* one caller making up to MaxWrites writes of whole units: room for an add,
\* a deflate, an increment and a second deflate
PassDecimals == {Dec(c, -PrecisionDigits) : c \in 1..MaxCoef}
NextPasses == CallsOn({1}, {<<TheType, TheId>>}, PassDecimals, DateTimes, MaxWrites)
SpecPasses == Init /\ [][NextPasses]_vars

\* callers racing on one identity
NextRace == Calls(Procs, RaceDecimals, DateTimes)
SpecRace == Init /\ [][NextRace]_vars

\* ------------------------------------------------------------------------
\* Properties
\* ------------------------------------------------------------------------
TheKey == pk(TheType, TheId)
Stale == "TrendingDNEOrAttributeMismatch"

\* p and q called with expectations taken from the same read state of one item;
\* p's call reached the table while the item was still in that state and q's
\* call came next, with no other write in between
RacePair(p, q) ==
    /\ p # q
    /\ done[p].pk = done[q].pk
    /\ done[p].seen >= 0
    /\ done[q].seen = done[p].seen
    /\ done[p].at = done[p].seen
    /\ done[q].at = done[p].seen + 1

\* caller p completed a call in this step
Called(p, o) == done'[p] # done[p] /\ done'[p].op = o

\* C1: of two deflate_score calls carrying the same expected score and date of
\* last deflation, read from one state of the record, exactly one succeeds and
\* the other raises TrendingDNEOrAttributeMismatch.
C1_ExactlyOneDeflateWins ==
    \A p, q \in Procs :
        (RacePair(p, q) /\ done[p].op = "deflate_score" /\ done[q].op = "deflate_score")
        => /\ done[p].outcome = "ok"
           /\ done[q].outcome = Stale

DeflatedSinceRead(p) ==
    /\ done'[p].seen >= 0
    /\ hist[done'[p].pk].by = "deflate"
    /\ hist[done'[p].pk].at > done'[p].seen

\* C3 as stated: after a deflate_score succeeded on a record, an add_score
\* carrying the lastDeflatedAt read before it raises
\* TrendingDNEOrAttributeMismatch and leaves the item as the deflate set it.
C3_StaleIncrementRejected ==
    [][\A p \in Procs :
        (Called(p, "add_score") /\ DeflatedSinceRead(p))
        => (done'[p].outcome = Stale /\ store' = store)]_vars

\* C3 amended: the same, when the stored lastDeflatedAt differs from the one
\* that was read (the deflate wrote another now than the value read).
C3_StaleIncrementRejectedIfChanged ==
    [][\A p \in Procs :
        (/\ Called(p, "add_score")
         /\ DeflatedSinceRead(p)
         /\ store[done'[p].pk].lastDeflatedAt # view[p].item.lastDeflatedAt)
        => (done'[p].outcome = Stale /\ store' = store)]_vars

C3_Witness ==
    \E p \in Procs :
        /\ done[p].op = "add_score"
        /\ done[p].outcome = Stale
        /\ done[p].seen >= 0
        /\ hist[done[p].pk].by = "deflate"
        /\ hist[done[p].pk].at > done[p].seen
        /\ ver[done[p].pk] = done[p].at
        /\ store[done[p].pk].lastDeflatedAt # view[p].item.lastDeflatedAt

\* C4: an add_score carrying the current lastDeflatedAt of a record that was
\* added and not deflated since succeeds, and after two of them the stored
\* score is quantize(quantize(s) + quantize(d1) + quantize(d2)), in either order.
C4_TwoIncrements ==
    [][\A p \in Procs :
        (/\ Called(p, "add_score")
         /\ done'[p].seen >= 0
         /\ hist[done'[p].pk].by = "add"
         /\ view[p].item.lastDeflatedAt = store[done'[p].pk].lastDeflatedAt)
        => LET k == done'[p].pk
               h == hist'[k]
           IN /\ done'[p].outcome = "ok"
              /\ Len(h.incs) = Len(hist[k].incs) + 1
              /\ Len(h.incs) = 2 =>
                    NumEq(store'[k].gsiK3SortKey,
                          Quantize(Dec(h.base + h.incs[1] + h.incs[2], -FineDigits)))]_vars

C4_Witness ==
    /\ hist[TheKey].by = "add"
    /\ Len(hist[TheKey].incs) = 2
    /\ hist[TheKey].incs[1] # hist[TheKey].incs[2]
    /\ hist[TheKey].base > 0

\* C5: deflate_score with new_score >= expected_score or new_score < 0 fails
\* its assertion and the table is left as it was, whatever it holds.
C5_DeflatePrecondition ==
    [][\A p \in Procs :
        (Called(p, "deflate_score") /\ ~done'[p].pre)
        => (done'[p].outcome = "AssertionError" /\ store' = store)]_vars

C5_Witness ==
    /\ done[1].op = "deflate_score"
    /\ ~done[1].pre
    /\ done[1].outcome = "AssertionError"
    /\ store[TheKey] # Absent

\* C6: a deflate_score that succeeds leaves a stored score strictly lower than
\* the one stored before it.
C6_DeflateLowers ==
    [][\A p \in Procs :
        (Called(p, "deflate_score") /\ done'[p].outcome = "ok")
        => NumLt(store'[done'[p].pk].gsiK3SortKey, store[done'[p].pk].gsiK3SortKey)]_vars

\* C7: add of an absent identity with initial_score >= 0, then get: the item
\* has score quantize(initial_score) and createdAt = lastDeflatedAt = now.
C7_AddThenGet ==
    [][\A p \in Procs :
        \/ done'[p].op # "add"
        \/ store[TheKey] # Absent
        \/ \A s \in Decimals, now \in DateTimes :
              (NumGe(s, Zero) /\ Add(p, TheType, TheId, s, now))
              => LET item == get_item(store', TheKey)
                 IN /\ done'[p].outcome = "ok"
                    /\ item # Absent
                    /\ NumEq(item.gsiK3SortKey, Quantize(s))
                    /\ item.createdAt = to_iso8601_string(now)
                    /\ item.lastDeflatedAt = to_iso8601_string(now)]_vars

C7_Witness ==
    /\ done[1].op = "add"
    /\ done[1].outcome = "ok"
    /\ view[1].pk = done[1].pk
    /\ view[1].ver = done[1].at + 1
    /\ view[1].item # Absent
    /\ Ticks(view[1].item.gsiK3SortKey) = 2 * Pow10(FineDigits - PrecisionDigits)

\* C8: add (with initial_score >= 0) of an identity that has a record raises
\* TrendingAlreadyExists and leaves the record as it was, whatever was done to
\* it since it was created.
C8_AddExisting ==
    [][\A p \in Procs :
        \/ done'[p].op # "add"
        \/ store[TheKey] = Absent
        \/ done'[p].outcome = "TrendingAlreadyExists" /\ store' = store
        \/ \A s \in Decimals, now \in DateTimes :
              NumGe(s, Zero) => ~Add(p, TheType, TheId, s, now)]_vars

C8_Witness ==
    /\ done[1].op = "add"
    /\ done[1].outcome = "TrendingAlreadyExists"
    /\ ver[TheKey] = done[1].at
    /\ hist[TheKey].by = "deflate"
    /\ store[TheKey].createdAt # store[TheKey].lastDeflatedAt

\* C9: delete with an expected_score equal to the stored score removes the
\* record, so that get returns nothing; with another expected_score it raises
\* TrendingDNEOrAttributeMismatch and the record stays as it was.
C9_ConditionedDelete ==
    [][\A p \in Procs :
        \/ done'[p].op # "delete"
        \/ store[TheKey] = Absent
        \/ \A es \in Expected(p, Decimals) :
              Delete(p, TheType, TheId, es)
              => IF NumEq(es, store[TheKey].gsiK3SortKey)
                 THEN done'[p].outcome = "ok" /\ get_item(store', TheKey) = Absent
                 ELSE done'[p].outcome = Stale /\ store' = store]_vars

\* an increment landed between the read and the delete
C9_Witness ==
    /\ done[1].op = "delete"
    /\ done[1].outcome = Stale
    /\ done[1].seen >= 0
    /\ done[1].at > done[1].seen
    /\ ver[TheKey] = done[1].at
    /\ store[TheKey] # Absent
    /\ hist[TheKey].at <= done[1].seen
    /\ Len(hist[TheKey].incs) > 0

\* C10: delete without expected_score of an identity that has no record raises
\* nothing and leaves the table as it was.
C10_DeleteAbsent ==
    [][\A p \in Procs :
        \/ done'[p].op # "delete"
        \/ store[TheKey] # Absent
        \/ done'[p].outcome = "ok" /\ store' = store
        \/ ~Delete(p, TheType, TheId, None)]_vars

C10_Witness ==
    /\ done[1].op = "delete"
    /\ done[1].outcome = "ok"
    /\ done[1].seen = -1
    /\ ver[TheKey] = done[1].at
    /\ ver[TheKey] > 0
    /\ store[TheKey] = Absent

\* the records of item type t: those an add of that type made and no delete
\* has removed since
Active(t) == {k \in Keys : hist[k].type = t}

\* caller p has just run generate_keys
Scanned(p) == scanned'[p] # scanned[p]

\* the stored scores of a sequence of keys never decrease along it
Ascending(keys) ==
    \A i, j \in 1..Len(keys) :
        i < j => ~NumLt(store[keys[j]].gsiK3SortKey, store[keys[i]].gsiK3SortKey)

\* C11: generate_keys yields the records of a type in non-decreasing order of
\* the scores stored when it runs, and a record whose score is lower than that
\* of every other record of its type is the first it yields
C11_ScanAscending ==
    [][\A p \in Procs :
        Scanned(p) =>
            /\ Ascending(scanned'[p].keys)
            /\ \A k \in Active(scanned'[p].item_type) :
                  (\A o \in Active(scanned'[p].item_type) \ {k} :
                      NumLt(store[k].gsiK3SortKey, store[o].gsiK3SortKey))
                  => scanned'[p].keys[1] = k]_vars

\* a scan of two records of one type, one of them deflated below the other
C11_Witness ==
    \E p \in Procs :
        /\ Len(scanned[p].keys) = 2
        /\ \A i \in 1..2 : store[scanned[p].keys[i]] # Absent
        /\ hist[scanned[p].keys[1]].by = "deflate"
        /\ Active(scanned[p].item_type) = {scanned[p].keys[1], scanned[p].keys[2]}
        /\ \A i \in 1..2 : ver[scanned[p].keys[i]] = MaxKeyVer
        /\ NumLt(store[scanned[p].keys[1]].gsiK3SortKey, store[scanned[p].keys[2]].gsiK3SortKey)

\* C12: every stored record has a score >= 0
C12_ScoreNonNegative ==
    \A k \in Keys : store[k] # Absent => NumGe(store[k].gsiK3SortKey, Zero)

\* a record deflated to zero, the lowest score a call may write, after a call
\* with a negative score was rejected
C12_Witness ==
    /\ store[TheKey] # Absent
    /\ hist[TheKey].by = "deflate"
    /\ NumEq(store[TheKey].gsiK3SortKey, Zero)
    /\ done[1].outcome = "AssertionError"

\* an ISO-8601 string of an earlier instant
Earlier(a, b) == a[1] < b[1] \/ (a[1] = b[1] /\ a[2] < b[2])

\* C13: no step sets the lastDeflatedAt of a record to an earlier value than
\* the one stored before the step, whatever now the caller passes
C13_LastDeflatedAtMonotonic ==
    [][\A k \in Keys :
        IF store[k] = Absent \/ store'[k] = Absent THEN TRUE
        ELSE ~Earlier(store'[k].lastDeflatedAt, store[k].lastDeflatedAt)]_vars

\* a step changes nothing of the item under k but its score
OnlyScore(k) ==
    IF store[k] = Absent \/ store'[k] = Absent THEN store'[k] = store[k]
    ELSE [store'[k] EXCEPT !.gsiK3SortKey = store[k].gsiK3SortKey] = store[k]

\* a step keeps the createdAt of an item that is there before and after it
SameCreatedAt(k) ==
    IF store[k] = Absent \/ store'[k] = Absent THEN TRUE
    ELSE store'[k].createdAt = store[k].createdAt

\* C14: add_score changes nothing but the score of its record, so it leaves
\* lastDeflatedAt and createdAt as they were; and no step changes the createdAt
\* of a record that exists before and after it
C14_IncrementOnlyScore ==
    [][/\ \A p \in Procs : Called(p, "add_score") => \A k \in Keys : OnlyScore(k)
       /\ \A k \in Keys : SameCreatedAt(k)]_vars

\* a record deflated at another instant than it was created at, then incremented
C14_Witness ==
    \E p \in Procs :
        /\ done[p].op = "add_score"
        /\ done[p].outcome = "ok"
        /\ store[TheKey] # Absent
        /\ hist[TheKey].by = "deflate"
        /\ hist[TheKey].incs # <<>>
        /\ hist[TheKey].incs[1] > 0
        /\ store[TheKey].lastDeflatedAt # store[TheKey].createdAt

\* C15: add_score or deflate_score, called within its precondition on a key
\* with no item, raises TrendingDNEOrAttributeMismatch and leaves the table as
\* it was, so the key still has no item
C15_UpdateAbsent ==
    [][\A p \in Procs :
        ( /\ Called(p, "add_score") \/ Called(p, "deflate_score")
          /\ done'[p].pre
          /\ store[done'[p].pk] = Absent )
        => (done'[p].outcome = Stale /\ store' = store)]_vars

\* a caller read a record, another caller deleted it, and the first caller's
\* deflate_score then met no item
C15_Witness ==
    \E p, q \in Procs :
        /\ p # q
        /\ done[q].op = "delete"
        /\ done[q].outcome = "ok"
        /\ done[p].op = "deflate_score"
        /\ done[p].pre
        /\ done[p].seen >= 0
        /\ done[p].at = done[q].at + 1
        /\ done[p].outcome = Stale
        /\ store[TheKey] = Absent

\* the caller's expectations hold of the stored item: there is one, its score
\* equals expected_score and its lastDeflatedAt begins with the expected date
Matches(item, expected_score, expected_last_deflation_date) ==
    IF item = Absent THEN FALSE
    ELSE /\ NumEq(item.gsiK3SortKey, expected_score)
         /\ begins_with(item.lastDeflatedAt, DateStr(expected_last_deflation_date))

\* the record with its score set to the quantized new_score, its lastDeflatedAt
\* set to now and nothing else changed
Deflated(item, new_score, now) ==
    [item EXCEPT !.gsiK3SortKey = Normalize(Quantize(new_score)),
                 !.lastDeflatedAt = <<now.day, now.tod>>]

\* C16: a deflate_score called within its precondition succeeds exactly when
\* the record exists, its stored score equals expected_score and its
\* lastDeflatedAt begins with the expected date; it then sets the score to the
\* quantized new_score and lastDeflatedAt to now; otherwise it raises
\* TrendingDNEOrAttributeMismatch and the table is unchanged
C16_DeflateIff ==
    [][\A p \in Procs :
        \/ ~Called(p, "deflate_score")
        \/ ~done'[p].pre
        \/ \A es \in Expected(p, Decimals), ns \in Decimals :
              \/ ~StrictlyLower(es, ns)
              \/ \A eldd \in Days, now \in DateTimes :
                    \/ IF Matches(store[TheKey], es, eldd)
                       THEN /\ done'[p].outcome = "ok"
                            /\ store' = [store EXCEPT ![TheKey] = Deflated(@, ns, now)]
                       ELSE /\ done'[p].outcome = Stale
                            /\ store' = store
                    \/ ~DeflateScore(p, TheType, TheId, es, ns, eldd, now)]_vars

\* a deflate_score that succeeded and changed both the score and lastDeflatedAt
C16_Witness ==
    \E p \in Procs :
        /\ done[p].op = "deflate_score"
        /\ done[p].outcome = "ok"
        /\ done[p].pre
        /\ store[TheKey] # Absent
        /\ hist[TheKey].by = "deflate"
        /\ hist[TheKey].at = done[p].at + 1
        /\ hist[TheKey].incs = <<>>
        /\ store[TheKey].lastDeflatedAt # store[TheKey].createdAt
        /\ Ticks(store[TheKey].gsiK3SortKey) = hist[TheKey].base

\* caller p calls deflate_score with the score and date of an item it read,
\* and a deflate_score has succeeded on the item in the state p read it in;
\* no add or deflate_score has succeeded since, increments may have
SecondPass(p) ==
    /\ Called(p, "deflate_score")
    /\ done'[p].pre
    /\ done'[p].seen >= 0
    /\ hist[done'[p].pk].by = "deflate"
    /\ hist[done'[p].pk].at = done'[p].seen + 1

\* C17 as stated: once a deflate_score has succeeded, a later deflate_score
\* carrying the same expected score and date raises
\* TrendingDNEOrAttributeMismatch, whatever increments came in between and
\* whatever now the first deflate passed
C17_SecondPassRejected ==
    [][\A p \in Procs : SecondPass(p) => done'[p].outcome = Stale]_vars

\* C17: once a deflate_score has succeeded with a now on another calendar date
\* than the expected one, a later deflate_score carrying the same expected
\* score and date raises TrendingDNEOrAttributeMismatch and changes nothing,
\* as long as no other add or deflate_score has succeeded since, even when
\* increments in between have brought the score back to the expected score
C17_SecondPassRejectedOnLaterDate ==
    [][\A p \in Procs :
        ( /\ SecondPass(p)
          /\ store[done'[p].pk].lastDeflatedAt[1] # view[p].item.lastDeflatedAt[1] )
        => (done'[p].outcome = Stale /\ store' = store)]_vars

\* a second pass rejected after a deflate on a later date and an increment
\* that brought the score back to the one both passes read
C17_Witness ==
    \E p \in Procs :
        /\ done[p].op = "deflate_score"
        /\ done[p].pre
        /\ done[p].seen >= 0
        /\ done[p].outcome = Stale
        /\ view[p].ver = done[p].seen
        /\ hist[TheKey].by = "deflate"
        /\ hist[TheKey].at = done[p].seen + 1
        /\ hist[TheKey].incs # <<>>
        /\ done[p].at = hist[TheKey].at + Len(hist[TheKey].incs)
        /\ store[TheKey].gsiK3SortKey = view[p].item.gsiK3SortKey
        /\ store[TheKey].lastDeflatedAt[1] # view[p].item.lastDeflatedAt[1]

\* C18: generate_keys of an item type yields exactly the records of that type,
\* those an add of the type made and no delete has removed since, each once,
\* and so no record of another type
C18_ScanExactlyActive ==
    [][\A p \in Procs :
        Scanned(p) =>
            /\ {scanned'[p].keys[i] : i \in 1..Len(scanned'[p].keys)}
                  = Active(scanned'[p].item_type)
            /\ Len(scanned'[p].keys) = Cardinality(Active(scanned'[p].item_type))]_vars

\* a scan of one type that yields its one record, updated since its add, and
\* not the record of the other type that is in the table
C18_Witness ==
    \E p \in Procs, k, o \in Keys :
        /\ scanned[p].item_type # ""
        /\ scanned[p].keys = <<k>>
        /\ Active(scanned[p].item_type) = {k}
        /\ ver[k] = MaxKeyVer
        /\ o # k
        /\ store[o] # Absent
        /\ hist[o].type # scanned[p].item_type

RECURSIVE Sum(_)
Sum(seq) == IF seq = <<>> THEN 0 ELSE seq[1] + Sum(Tail(seq))

\* the stored score is what the last add or deflate_score wrote plus the
\* quantized deltas of the add_score calls that succeeded since
ScoreIsSum(k) ==
    IF store[k] = Absent THEN TRUE
    ELSE Ticks(store[k].gsiK3SortKey) = hist[k].base + Sum(hist[k].incs)

\* C19: after every step the score of a record is the score its last add or
\* deflate_score wrote plus the sum of the quantized deltas of the add_score
\* calls that succeeded since; and a deflate_score computed from a score the
\* caller read succeeds only if that score is the one stored when it is
\* applied, so it never overwrites an increment that came after the read
C19_NoIncrementLost ==
    [][/\ \A k \in Keys : ScoreIsSum(k)'
       /\ \A p \in Procs :
             ( /\ Called(p, "deflate_score")
               /\ done'[p].outcome = "ok"
               /\ done'[p].seen >= 0 )
             => NumEq(view[p].item.gsiK3SortKey, store[done'[p].pk].gsiK3SortKey)]_vars

\* a caller read a record, another caller's increment landed, and the first
\* caller's deflate_score computed from the score it read was rejected; the
\* record holds the increment
C19_Witness ==
    \E p, q \in Procs :
        /\ p # q
        /\ done[q].op = "add_score"
        /\ done[q].outcome = "ok"
        /\ done[p].op = "deflate_score"
        /\ done[p].outcome = Stale
        /\ done[p].pre
        /\ done[p].seen >= 0
        /\ done[q].at = done[p].seen
        /\ done[p].at = done[p].seen + 1
        /\ store[TheKey] # Absent
        /\ hist[TheKey].incs # <<>>
        /\ Sum(hist[TheKey].incs) > 0
        /\ Ticks(store[TheKey].gsiK3SortKey) = hist[TheKey].base + Sum(hist[TheKey].incs)

\* the step is a write call of caller p addressed to the identity id
WriteTo(p, id) == Writes(p, id[1], id[2], KeyDecimals, KeyTimes)

\* C20: an add, add_score, deflate_score or delete addressed to one identity
\* (item type, item id) never creates, changes or removes the record of
\* another identity, also for ids that contain '/'
C20_Isolated ==
    [][\A p \in Procs, id \in Identities :
        \A other \in Identities \ {id} :
            \/ get_item(store', pk(other[1], other[2])) = get_item(store, pk(other[1], other[2]))
            \/ ~WriteTo(p, id)]_vars

====
